---- MODULE Spec2Model ----
(***************************************************************************)
(* A model of DockerContainerizerProcess                                   *)
(* (src/slave/containerizer/docker.cpp): the actor that launches, tracks,  *)
(* updates and destroys Docker containers.  The per-container maps of the  *)
(* process, the futures it waits on and the calls it has in flight at the  *)
(* Docker client are the state; every handler of the process is an action. *)
(***************************************************************************)
EXTENDS Naturals, Sequences, FiniteSets, Bags, TLC

\* ---------------------------------------------------------------- bounds
\* Calls of launch (either overload) the environment makes, plus the
\* containers recover() is given.
MaxLaunches == 2
\* Calls of the public destroy the environment makes.
MaxDestroys == 2
\* Calls of update the environment makes.
MaxUpdates == 1
\* Calls of launch, and of the public destroy, the environment makes where
\* it calls update as well.
MaxUpdateLaunches == 1
MaxUpdateDestroys == 1
\* Calls of usage the environment makes.
MaxUsages == 1

\* ------------------------------------------------------------- constants
\* ContainerID values, as character sequences.  The environment launches,
\* destroys and updates the ids of CallIds, and their processes may exit;
\* recover() is given executors of any of Ids, and the executors of the
\* other ids keep running.
CallIds == {<<"a">>}
Ids == CallIds \cup {<<"b">>}

\* string DOCKER_NAME_PREFIX = "mesos-";
DOCKER_NAME_PREFIX == <<"m", "e", "s", "o", "s", "-">>

\* The image prefix launch() looks for: "docker:///".
DOCKER_IMAGE_PREFIX == <<"d", "o", "c", "k", "e", "r", ":", "/", "/", "/">>

\* Exit codes a reaped process may report.
ExitCodes == {1}

\* const uint64_t CPU_SHARES_PER_CPU and MIN_CPU_SHARES (cpushare.hpp),
\* const Bytes MIN_MEMORY (mem.hpp), in megabytes.
CPU_SHARES_PER_CPU == 1024
MIN_CPU_SHARES == 10
MIN_MEMORY == 32

\* Resources values: cpus in thousandths of a CPU, mem in megabytes, each
\* present or not.
Resources ==
    {[cpus |-> {}, mem |-> {}],
     [cpus |-> {2000}, mem |-> {16}],
     [cpus |-> {5}, mem |-> {128}]}

\* What docker.run set up for a container before any update: cpu.shares,
\* memory.soft_limit_in_bytes and memory.limit_in_bytes (megabytes).
InitialCgroup == [shares |-> 1024, soft |-> 64, limit |-> 64]

\* ---------------------------------------------------------------- helpers
\* strings::startsWith
startsWith(s, prefix) ==
    /\ Len(s) >= Len(prefix)
    /\ SubSeq(s, 1, Len(prefix)) = prefix

\* strings::remove(s, prefix, strings::PREFIX)
removePrefix(s, prefix) ==
    IF startsWith(s, prefix) THEN SubSeq(s, Len(prefix) + 1, Len(s)) ELSE s

\* DockerContainerizerProcess::containerName
containerName(containerId) == DOCKER_NAME_PREFIX \o containerId

\* hashmap::put, hashmap::erase and hashmap::contains on a map kept as a
\* function whose domain is the set of keys.
put(m, k, v) == [x \in (DOMAIN m) \cup {k} |-> IF x = k THEN v ELSE m[x]]
erase(m, k) == [x \in (DOMAIN m) \ {k} |-> m[x]]
contains(m, k) == k \in DOMAIN m

\* Option<T>: None() is the empty set, Some(v) the singleton.
None == {}
Some(v) == {v}

\* The commands launch() is given: CommandInfo with or without a container
\* block, and with an image that is or is not a Docker image.
DockerCommand ==
    [has_command |-> TRUE, has_container |-> TRUE,
     image |-> DOCKER_IMAGE_PREFIX \o <<"i">>]
FileCommand ==
    [has_command |-> TRUE, has_container |-> TRUE,
     image |-> <<"f", "i", "l", "e", ":", "/", "/", "/", "x">>]
NoContainerCommand ==
    [has_command |-> TRUE, has_container |-> FALSE, image |-> <<>>]
NoCommand ==
    [has_command |-> FALSE, has_container |-> FALSE, image |-> <<>>]
Commands == {DockerCommand, FileCommand, NoContainerCommand, NoCommand}

\* containerizer::Termination, as __destroy fills it in.  A message is the
\* sequence of the strings it is concatenated from.
Termination(killed, status) ==
    [killed |-> killed,
     status |-> status,
     message |-> IF killed THEN <<"Docker task killed">>
                           ELSE <<"Docker process terminated">>]

\* The value of a failed future: only the message counts.
Failed(message) == [killed |-> FALSE, status |-> None, message |-> message]

\* Failure(message): a future that has failed.
Failure(message) == [state |-> "failed", value |-> Failed(message)]

\* new Promise<containerizer::Termination>()
NewPromise ==
    [state |-> "pending",
     value |-> [killed |-> FALSE, status |-> None, message |-> <<>>]]

\* A faulty Promise<T>::set, which takes effect on a resolved promise too.
PromiseSetAgain(promise, t) == [state |-> "ready", value |-> t]

\* Promise<T>::set: takes effect on a pending promise only.
PromiseSet(promise, t) ==
    IF promise.state = "pending"
    THEN [state |-> "ready", value |-> t]
    ELSE promise

\* Promise<T>::fail: takes effect on a pending promise only.
PromiseFail(promise, message) ==
    IF promise.state = "pending"
    THEN Failure(message)
    ELSE promise

\* A Future<Option<int>> as statuses holds it: a future of the reaper that
\* is still pending (f names it), or a ready one with its value.
PendingFuture(f) == [state |-> "pending", f |-> f, value |-> None]
ReadyFuture(value) == [state |-> "ready", f |-> 0, value |-> value]

\* A call deferred to the process: defer(self(), &Self::<type>, ...).
Deferred(type, containerId, killed, status) ==
    [type |-> type, id |-> containerId, killed |-> killed, status |-> status]

\* ------------------------------------------------------------------ state
VARIABLES
    promises,     \* hashmap<ContainerID, Owned<Promise<Termination>>>
    statuses,     \* hashmap<ContainerID, Future<Option<int>>>
    resources,    \* hashmap<ContainerID, Resources>
    destroying,   \* hashset<ContainerID>
    terminated,   \* id -> the promise of its record that was erased last, as
                  \* the holders of its future see it
    futures,      \* the pending futures of the reaper: name -> pid, callbacks
    launches,     \* the launch calls in flight: number -> stage
    launched,     \* what the launch future that completed last resolved to
    kills,        \* the docker.kill calls of destroy() in flight (a bag)
    inbox,        \* deferred calls dispatched to the process, in order
    crashed,      \* the process aborted on a CHECK (a null Owned dereferenced)
    nLaunch,      \* launch calls made, and containers recovered, so far
    nDestroy,     \* public destroy calls made so far
    hist,         \* id -> what happened to its current (or last) record
    stub,         \* what the step just taken did to the executor it forked
    updates,      \* the docker.inspect calls of update() in flight (a bag)
    nUpdate,      \* update calls made so far
    hierarchies,  \* the static cpuHierarchy and memoryHierarchy of _update
    cgroups,      \* id -> the control files of the cgroups of its container
    recovery,     \* recover(): not called, docker.ps in flight, done, failed
    sweeps,       \* the runtime ids _recover issued docker.kill for, in order
    usages,       \* the docker.inspect calls of usage() in flight (a bag)
    nUsage,       \* usage calls made so far
    statistics    \* what the usage future that the step completed resolved to

lifecycle == <<promises, statuses, destroying, terminated, futures, launches,
               launched, kills, inbox, crashed, nLaunch, nDestroy, hist>>
updating == <<updates, nUpdate, hierarchies, cgroups>>
recovering == <<recovery, sweeps>>
using == <<usages, nUsage, statistics>>

vars == <<lifecycle, stub, resources, updating, recovering, using>>

\* ---------------------------------------------------------------- history
\* What is remembered of the record of an id (history, not program state).
NewHist(owner) ==
    [owner |-> owner,      \* the launch (or recovery) that installed it
     calls |-> 0,          \* destroy calls that found this record
     killed |-> FALSE,     \* the killed flag of the latest latching destroy
     origin |-> "none",    \* who made it: caller, reaper or launch (onFailed)
     phase |-> "live",     \* live, destroying, killfailed, awaitingreap, terminated
     failed |-> FALSE,     \* a docker.kill of this record has failed
     updated |-> None,     \* the resources of the latest update of this record
     exit |-> None,        \* the status the reaper gave the latching reaped()
     awaited |-> 0,        \* the future _destroy attached __destroy to, if pending
     absent |-> FALSE]     \* _destroy found no status and put None in place

\* A launch call in flight: stage is run (docker.run in flight) or inspect
\* (docker.inspect in flight); removed says that a docker.kill of its
\* container has succeeded since.
Call(containerId, mode, checkpoint, stage) ==
    [id |-> containerId, mode |-> mode, checkpoint |-> checkpoint,
     stage |-> stage, removed |-> FALSE]

\* The result of a completed launch future: true, false, failed (a Failure
\* after the record was installed) or already started.
Launched(containerId, result) == [id |-> containerId, result |-> result]

\* The result of a usage future: ResourceStatistics with the limits that
\* _usage sets, or a failure; NoStatistics if the step completed none.
Statistics(containerId, state, message, cpus_limit, mem_limit_bytes) ==
    [id |-> containerId, state |-> state, message |-> message,
     cpus_limit |-> cpus_limit, mem_limit_bytes |-> mem_limit_bytes]
NoStatistics == Statistics(<<>>, "none", <<>>, None, None)

\* No executor was forked by the step: every step but _launch of a task.
NoStub == [checkpoint |-> FALSE, steps |-> <<>>]

Init ==
    /\ promises = <<>>
    /\ statuses = <<>>
    /\ resources = <<>>
    /\ destroying = {}
    /\ terminated = <<>>
    /\ futures = <<>>
    /\ launches = <<>>
    /\ launched = Launched(<<>>, "none")
    /\ kills = EmptyBag
    /\ inbox = <<>>
    /\ crashed = FALSE
    /\ nLaunch = 0
    /\ nDestroy = 0
    /\ hist = [id \in Ids |-> NewHist(0)]
    /\ stub = NoStub
    /\ usages = EmptyBag
    /\ nUsage = 0
    /\ statistics = NoStatistics
    /\ updates = EmptyBag
    /\ nUpdate = 0
    /\ hierarchies = [cpu |-> "unset", memory |-> "unset"]
    /\ cgroups = [id \in Ids |-> InitialCgroup]
    /\ recovery = "none"
    /\ sweeps = <<>>

\* ----------------------------------------------------------------- launch
\* A faulty test of the command, which takes any image.
isDockerAnyImage(command) == command.has_container

\* Whether launch() takes the command: it has a container block whose image
\* starts with "docker:///".
isDocker(command) ==
    /\ command.has_container
    /\ startsWith(command.image, DOCKER_IMAGE_PREFIX)

\* promises.put(containerId, promise), and docker.run is issued.
install(containerId, mode, checkpoint) ==
    /\ promises' = put(promises, containerId, NewPromise)
    /\ launches' = put(launches, nLaunch + 1,
           Call(containerId, mode, checkpoint, "run"))
    /\ hist' = [hist EXCEPT ![containerId] = NewHist(nLaunch + 1)]
    /\ terminated' = erase(terminated, containerId)
    /\ UNCHANGED launched

\* launch() returns at once with result.
return(containerId, result) ==
    /\ launched' = Launched(containerId, result)
    /\ UNCHANGED <<promises, launches, hist, terminated>>

\* A faulty launch of the executor overload, without the test of promises:
\* a record that exists is replaced.
launchAgain(containerId, command, checkpoint) ==
    /\ ~crashed
    /\ nLaunch < MaxLaunches
    /\ nLaunch' = nLaunch + 1
    /\ IF ~isDocker(command) THEN
           return(containerId, "false")
       ELSE
           install(containerId, "executor", checkpoint)
    /\ UNCHANGED <<statuses, resources, destroying, futures, kills, inbox,
                   crashed, nDestroy>>
    /\ stub' = NoStub
    /\ statistics' = NoStatistics
    /\ UNCHANGED <<usages, nUsage>>
    /\ UNCHANGED <<updating, recovering>>

\* launch(containerId, executorInfo, ...): the executor overload.
launch(containerId, command, checkpoint) ==
    /\ ~crashed
    /\ nLaunch < MaxLaunches
    /\ nLaunch' = nLaunch + 1
    /\ IF contains(promises, containerId) THEN
           return(containerId, "already started")
       ELSE IF ~isDocker(command) THEN
           return(containerId, "false")
       ELSE
           install(containerId, "executor", checkpoint)
    /\ UNCHANGED <<statuses, resources, destroying, futures, kills, inbox,
                   crashed, nDestroy>>
    /\ stub' = NoStub
    /\ statistics' = NoStatistics
    /\ UNCHANGED <<usages, nUsage>>
    /\ UNCHANGED <<updating, recovering>>

\* launch(containerId, taskInfo, executorInfo, ...): the task overload.
launch_task(containerId, command, taskResources, checkpoint) ==
    /\ ~crashed
    /\ nLaunch < MaxLaunches
    /\ nLaunch' = nLaunch + 1
    /\ IF contains(promises, containerId) THEN
           /\ return(containerId, "already started")
           /\ UNCHANGED resources
       ELSE IF ~command.has_command \/ ~isDocker(command) THEN
           /\ return(containerId, "false")
           /\ UNCHANGED resources
       ELSE
           /\ install(containerId, "task", checkpoint)
           /\ resources' = put(resources, containerId, taskResources)
    /\ UNCHANGED <<statuses, destroying, futures, kills, inbox, crashed,
                   nDestroy>>
    /\ stub' = NoStub
    /\ statistics' = NoStatistics
    /\ UNCHANGED <<usages, nUsage>>
    /\ UNCHANGED <<updating, recovering>>

\* A faulty failure path of launch, without the .onFailed: no destroy is
\* dispatched.
launchFailedQuietly(l) ==
    /\ launches' = erase(launches, l)
    /\ launched' = Launched(launches[l].id, "failed")
    /\ UNCHANGED inbox

\* The launch future has failed: .onFailed(defer(self(), &Self::destroy,
\* containerId, false)) dispatches the destroy.
launchFailed(l) ==
    /\ launches' = erase(launches, l)
    /\ launched' = Launched(launches[l].id, "failed")
    /\ inbox' = Append(inbox, Deferred("destroy", launches[l].id, FALSE, None))

\* docker.run failed (either overload).
runFailed(l) ==
    /\ ~crashed
    /\ l \in DOMAIN launches
    /\ launches[l].stage = "run"
    /\ launchFailed(l)
    /\ UNCHANGED <<promises, statuses, resources, destroying, terminated,
                   futures, kills, crashed, nLaunch, nDestroy, hist>>
    /\ stub' = NoStub
    /\ statistics' = NoStatistics
    /\ UNCHANGED <<usages, nUsage>>
    /\ UNCHANGED <<updating, recovering>>

\* _launch of the executor overload: docker.run is done, docker.inspect is
\* issued.
_launch(l) ==
    /\ ~crashed
    /\ l \in DOMAIN launches
    /\ launches[l].stage = "run"
    /\ launches[l].mode = "executor"
    /\ launches' = [launches EXCEPT ![l].stage = "inspect"]
    /\ UNCHANGED <<promises, statuses, resources, destroying, terminated,
                   futures, launched, kills, inbox, crashed, nLaunch,
                   nDestroy, hist>>
    /\ stub' = NoStub
    /\ statistics' = NoStatistics
    /\ UNCHANGED <<usages, nUsage>>
    /\ UNCHANGED <<updating, recovering>>

\* docker.inspect failed.
inspectFailed(l) ==
    /\ ~crashed
    /\ l \in DOMAIN launches
    /\ launches[l].stage = "inspect"
    /\ launchFailed(l)
    /\ UNCHANGED <<promises, statuses, resources, destroying, terminated,
                   futures, kills, crashed, nLaunch, nDestroy, hist>>
    /\ stub' = NoStub
    /\ statistics' = NoStatistics
    /\ UNCHANGED <<usages, nUsage>>
    /\ UNCHANGED <<updating, recovering>>

\* The pid of the process of launch l (container.pid.get(), s.get().pid()):
\* the pid of a process that runs, so none of the pids of the executors
\* recover() is given.
launchedPid(l) == 10 + l

\* statuses[containerId] = process::reap(pid);
\* statuses[containerId].onAny(defer(self(), &Self::reaped, containerId));
\* and the launch future resolves true.
watch(l) ==
    /\ futures' = put(futures, l,
           [pid |-> launchedPid(l),
            callbacks |-> <<Deferred("reaped", launches[l].id, FALSE, None)>>,
            removed |-> launches[l].removed])
    /\ statuses' = put(statuses, launches[l].id, PendingFuture(l))
    /\ launches' = erase(launches, l)
    /\ launched' = Launched(launches[l].id, "true")
    /\ UNCHANGED inbox

\* __launch: docker.inspect is done; hasPid says whether container.pid is
\* there, checkpointed whether slave::state::checkpoint succeeded.
__launch(l, hasPid, checkpointed) ==
    /\ ~crashed
    /\ l \in DOMAIN launches
    /\ launches[l].stage = "inspect"
    /\ IF ~hasPid \/ (launches[l].checkpoint /\ ~checkpointed) THEN
           /\ launchFailed(l)
           /\ UNCHANGED <<statuses, futures>>
       ELSE
           watch(l)
    /\ UNCHANGED <<promises, resources, destroying, terminated, kills,
                   crashed, nLaunch, nDestroy, hist>>
    /\ stub' = NoStub
    /\ statistics' = NoStatistics
    /\ UNCHANGED <<usages, nUsage>>
    /\ UNCHANGED <<updating, recovering>>

\* A faulty order of the steps of _launch of the task overload: the byte is
\* written before the pid is checkpointed.
stubStepsUngated(checkpoint, forked, checkpointed, written) ==
    IF ~forked THEN <<>>
    ELSE IF ~written THEN <<"fork", "close">>
    ELSE IF ~checkpoint THEN <<"fork", "byte", "reap">>
    ELSE IF ~checkpointed THEN <<"fork", "byte", "close">>
    ELSE <<"fork", "byte", "checkpoint", "reap">>

\* What _launch of the task overload does to the executor it forks, in
\* order: fork (subprocess() succeeded; the child blocks in setup() until
\* it reads a byte from its stdin), checkpoint (the pid is written to the
\* forked pid path), byte (the byte is written to the stdin of the child),
\* close (its stdin is closed, and the child aborts), reap (the pid is
\* given to the reaper).
stubSteps(checkpoint, forked, checkpointed, written) ==
    IF ~forked THEN <<>>
    ELSE IF checkpoint /\ ~checkpointed THEN <<"fork", "close">>
    ELSE
        LET sofar == IF checkpoint THEN <<"fork", "checkpoint">>
                                   ELSE <<"fork">>
        IN  IF ~written THEN sofar \o <<"close">>
            ELSE sofar \o <<"byte", "reap">>

\* _launch of the task overload: docker.run is done; forked says whether
\* subprocess() succeeded, checkpointed whether the checkpoint did, written
\* whether the byte that releases the executor was written.
_launch_task(l, forked, checkpointed, written) ==
    /\ ~crashed
    /\ l \in DOMAIN launches
    /\ launches[l].stage = "run"
    /\ launches[l].mode = "task"
    /\ LET steps == stubSteps(launches[l].checkpoint, forked, checkpointed,
                              written)
       IN  /\ stub' = [checkpoint |-> launches[l].checkpoint, steps |-> steps]
           /\ IF steps # <<>> /\ steps[Len(steps)] = "reap" THEN
                  watch(l)
              ELSE
                  /\ launchFailed(l)
                  /\ UNCHANGED <<statuses, futures>>
    /\ UNCHANGED <<promises, resources, destroying, terminated, kills,
                   crashed, nLaunch, nDestroy, hist>>
    /\ statistics' = NoStatistics
    /\ UNCHANGED <<usages, nUsage>>
    /\ UNCHANGED <<updating, recovering>>

\* ---------------------------------------------------------------- destroy
\* A faulty destroy, without the test of destroying: every call for a known
\* container issues docker.kill.
destroyUnlatched(containerId, killed, origin, status) ==
    IF ~contains(promises, containerId) THEN
        UNCHANGED <<destroying, kills, hist>>
    ELSE
        /\ destroying' = destroying \cup {containerId}
        /\ kills' = kills (+) SetToBag({[id |-> containerId, killed |-> killed]})
        /\ hist' = [hist EXCEPT ![containerId] =
               [@ EXCEPT !.calls = @ + 1, !.killed = killed,
                         !.origin = origin, !.phase = "destroying",
                         !.exit = status]]

\* A faulty destroy, without the test of promises: a container that is not
\* known is destroyed too.
destroyUnknown(containerId, killed, origin, status) ==
    IF containerId \in destroying THEN
        /\ hist' = [hist EXCEPT ![containerId].calls = @ + 1]
        /\ UNCHANGED <<destroying, kills>>
    ELSE
        /\ destroying' = destroying \cup {containerId}
        /\ kills' = kills (+) SetToBag({[id |-> containerId, killed |-> killed]})
        /\ hist' = [hist EXCEPT ![containerId] =
               [@ EXCEPT !.calls = @ + 1, !.killed = killed,
                         !.origin = origin, !.phase = "destroying",
                         !.exit = status]]

\* A faulty destroy, which issues docker.kill again for a container that is
\* in destroying already.
destroyRekill(containerId, killed, origin, status) ==
    IF ~contains(promises, containerId) THEN
        UNCHANGED <<destroying, kills, hist>>
    ELSE IF containerId \in destroying THEN
        /\ hist' = [hist EXCEPT ![containerId].calls = @ + 1]
        /\ kills' = kills (+) SetToBag({[id |-> containerId, killed |-> killed]})
        /\ UNCHANGED destroying
    ELSE
        /\ destroying' = destroying \cup {containerId}
        /\ kills' = kills (+) SetToBag({[id |-> containerId, killed |-> killed]})
        /\ hist' = [hist EXCEPT ![containerId] =
               [@ EXCEPT !.calls = @ + 1, !.killed = killed,
                         !.origin = origin, !.phase = "destroying",
                         !.exit = status]]

\* destroy(containerId, killed), called by origin (caller, reaper, launch);
\* status is what the reaper reported, when reaped() makes the call.  The
\* action that uses this operator leaves destroying, kills and hist to it.
destroy(containerId, killed, origin, status) ==
    IF ~contains(promises, containerId) THEN
        UNCHANGED <<destroying, kills, hist>>
    ELSE IF containerId \in destroying THEN
        /\ hist' = [hist EXCEPT ![containerId].calls = @ + 1]
        /\ UNCHANGED <<destroying, kills>>
    ELSE
        /\ destroying' = destroying \cup {containerId}
        /\ kills' = kills (+) SetToBag({[id |-> containerId, killed |-> killed]})
        /\ hist' = [hist EXCEPT ![containerId] =
               [@ EXCEPT !.calls = @ + 1, !.killed = killed,
                         !.origin = origin, !.phase = "destroying",
                         !.exit = status]]

\* A faulty public destroy, which passes killed = false.
DestroyUnflagged(containerId) ==
    /\ ~crashed
    /\ nDestroy < MaxDestroys
    /\ nDestroy' = nDestroy + 1
    /\ destroy(containerId, FALSE, "caller", None)
    /\ UNCHANGED <<promises, statuses, resources, terminated, futures,
                   launches, launched, inbox, crashed, nLaunch>>
    /\ stub' = NoStub
    /\ statistics' = NoStatistics
    /\ UNCHANGED <<usages, nUsage>>
    /\ UNCHANGED <<updating, recovering>>

\* DockerContainerizer::destroy: the public call, killed = true.
Destroy(containerId) ==
    /\ ~crashed
    /\ nDestroy < MaxDestroys
    /\ nDestroy' = nDestroy + 1
    /\ destroy(containerId, TRUE, "caller", None)
    /\ UNCHANGED <<promises, statuses, resources, terminated, futures,
                   launches, launched, inbox, crashed, nLaunch>>
    /\ stub' = NoStub
    /\ statistics' = NoStatistics
    /\ UNCHANGED <<usages, nUsage>>
    /\ UNCHANGED <<updating, recovering>>

\* The destroy that a failed launch dispatched reaches the process.
destroyDeferred ==
    /\ ~crashed
    /\ inbox # <<>>
    /\ Head(inbox).type = "destroy"
    /\ inbox' = Tail(inbox)
    /\ destroy(Head(inbox).id, Head(inbox).killed, "launch", None)
    /\ UNCHANGED <<promises, statuses, resources, terminated, futures,
                   launches, launched, crashed, nLaunch, nDestroy>>
    /\ stub' = NoStub
    /\ statistics' = NoStatistics
    /\ UNCHANGED <<usages, nUsage>>
    /\ UNCHANGED <<updating, recovering>>

\* reaped(containerId): the reaper's future of the container completed.
reaped ==
    /\ ~crashed
    /\ inbox # <<>>
    /\ Head(inbox).type = "reaped"
    /\ inbox' = Tail(inbox)
    /\ IF ~contains(promises, Head(inbox).id)
       THEN UNCHANGED <<destroying, kills, hist>>
       ELSE destroy(Head(inbox).id, FALSE, "reaper", Head(inbox).status)
    /\ UNCHANGED <<promises, statuses, resources, terminated, futures,
                   launches, launched, crashed, nLaunch, nDestroy>>
    /\ stub' = NoStub
    /\ statistics' = NoStatistics
    /\ UNCHANGED <<usages, nUsage>>
    /\ UNCHANGED <<updating, recovering>>

\* The docker.kill of destroy() succeeded for the container of the record of
\* id: the launch that made it, and the future that watches it, remember.
remove(m, containerId) ==
    [x \in DOMAIN m |->
        IF x = hist[containerId].owner /\ contains(promises, containerId)
        THEN [m[x] EXCEPT !.removed = TRUE] ELSE m[x]]

\* A faulty _destroy on a docker.kill that is not ready: the latch is
\* released but the promise is not failed.
_destroyFailureSwallowed(k, outcome) ==
    IF ~contains(promises, k.id) THEN
        /\ crashed' = TRUE
        /\ UNCHANGED <<promises, destroying, hist>>
    ELSE
        /\ destroying' = destroying \ {k.id}
        /\ hist' = [hist EXCEPT ![k.id] =
               [@ EXCEPT !.phase = "killfailed", !.failed = TRUE]]
        /\ UNCHANGED <<promises, crashed>>

\* A faulty _destroy on a docker.kill that is not ready: the promise is
\* failed but the latch is kept.
_destroyFailureLatched(k, outcome) ==
    IF ~contains(promises, k.id) THEN
        /\ crashed' = TRUE
        /\ UNCHANGED <<promises, destroying, hist>>
    ELSE
        /\ promises' = [promises EXCEPT ![k.id] = PromiseFail(@,
               <<"Failed to destroy container: ",
                 IF outcome = "failed" THEN "failure"
                                       ELSE "discarded future">>)]
        /\ hist' = [hist EXCEPT ![k.id] =
               [@ EXCEPT !.phase = "killfailed", !.failed = TRUE]]
        /\ UNCHANGED <<destroying, crashed>>

\* A faulty _destroy on a docker.kill that is not ready: the promise is
\* failed and the record erased with it.
_destroyFailureForgotten(k, outcome) ==
    IF ~contains(promises, k.id) THEN
        /\ crashed' = TRUE
        /\ UNCHANGED <<promises, destroying, hist>>
    ELSE
        /\ promises' = erase(promises, k.id)
        /\ destroying' = destroying \ {k.id}
        /\ hist' = [hist EXCEPT ![k.id] =
               [@ EXCEPT !.phase = "killfailed", !.failed = TRUE]]
        /\ UNCHANGED crashed

\* _destroy when the future of docker.kill is not ready (outcome is failed
\* or discarded): the promise is failed and the latch released.
_destroyFailure(k, outcome) ==
    IF ~contains(promises, k.id) THEN
        /\ crashed' = TRUE
        /\ UNCHANGED <<promises, destroying, hist>>
    ELSE
        /\ promises' = [promises EXCEPT ![k.id] = PromiseFail(@,
               <<"Failed to destroy container: ",
                 IF outcome = "failed" THEN "failure"
                                       ELSE "discarded future">>)]
        /\ destroying' = destroying \ {k.id}
        /\ hist' = [hist EXCEPT ![k.id] =
               [@ EXCEPT !.phase = "killfailed", !.failed = TRUE]]
        /\ UNCHANGED crashed

\* A faulty _destroy when docker.kill succeeded, which does not wait for the
\* status: __destroy is dispatched at once, with no status.
_destroyStatusEager(k) ==
    /\ statuses' = IF contains(statuses, k.id) THEN statuses
                   ELSE put(statuses, k.id, ReadyFuture(None))
    /\ inbox' = Append(inbox, Deferred("__destroy", k.id, k.killed, None))
    /\ futures' = remove(futures, k.id)
    /\ launches' = remove(launches, k.id)
    /\ hist' = IF contains(promises, k.id)
               THEN [hist EXCEPT ![k.id] =
                        [@ EXCEPT !.phase = "awaitingreap",
                                  !.awaited =
                                      IF contains(statuses, k.id)
                                         /\ statuses[k.id].state = "pending"
                                      THEN statuses[k.id].f ELSE 0,
                                  !.absent = ~contains(statuses, k.id)]]
               ELSE hist

\* A faulty _destroy when docker.kill succeeded, which puts no status in
\* place: with no status there is nothing to attach __destroy to.
_destroyStatusUnsubstituted(k) ==
    LET callback == Deferred("__destroy", k.id, k.killed, None)
    IN  /\ UNCHANGED statuses
        /\ IF ~contains(statuses, k.id) THEN
               /\ futures' = remove(futures, k.id)
               /\ UNCHANGED inbox
           ELSE IF statuses[k.id].state = "ready" THEN
               /\ inbox' = Append(inbox,
                      [callback EXCEPT !.status = statuses[k.id].value])
               /\ futures' = remove(futures, k.id)
           ELSE
               /\ futures' = remove(
                      [futures EXCEPT ![statuses[k.id].f].callbacks =
                          Append(@, callback)], k.id)
               /\ UNCHANGED inbox
        /\ launches' = remove(launches, k.id)
        /\ hist' = IF contains(promises, k.id)
                   THEN [hist EXCEPT ![k.id] =
                            [@ EXCEPT !.phase = "awaitingreap",
                                      !.awaited =
                                          IF contains(statuses, k.id)
                                             /\ statuses[k.id].state = "pending"
                                          THEN statuses[k.id].f ELSE 0,
                                      !.absent = ~contains(statuses, k.id)]]
                   ELSE hist

\* _destroy when docker.kill succeeded: a None status is put in place if
\* there is no status, and __destroy is attached to the status.
_destroyStatus(k) ==
    LET status == IF contains(statuses, k.id) THEN statuses[k.id]
                                              ELSE ReadyFuture(None)
        callback == Deferred("__destroy", k.id, k.killed, None)
    IN  /\ statuses' = put(statuses, k.id, status)
        /\ IF status.state = "ready" THEN
               /\ inbox' = Append(inbox,
                      [callback EXCEPT !.status = status.value])
               /\ futures' = remove(futures, k.id)
           ELSE
               /\ futures' = remove(
                      [futures EXCEPT ![status.f].callbacks =
                          Append(@, callback)], k.id)
               /\ UNCHANGED inbox
        /\ launches' = remove(launches, k.id)
        /\ hist' = IF contains(promises, k.id)
                   THEN [hist EXCEPT ![k.id] =
                            [@ EXCEPT !.phase = "awaitingreap",
                                      !.awaited = IF status.state = "ready"
                                                  THEN 0 ELSE status.f,
                                      !.absent = ~contains(statuses, k.id)]]
                   ELSE hist

\* _destroy(containerId, killed, future): docker.kill completed with
\* outcome ready, failed or discarded.
_destroy(k, outcome) ==
    /\ ~crashed
    /\ BagIn(k, kills)
    /\ kills' = kills (-) SetToBag({k})
    /\ IF outcome # "ready" THEN
           /\ _destroyFailure(k, outcome)
           /\ UNCHANGED <<statuses, futures, launches, inbox>>
       ELSE
           /\ _destroyStatus(k)
           /\ UNCHANGED <<promises, destroying, crashed>>
    /\ UNCHANGED <<resources, terminated, launched, nLaunch, nDestroy>>
    /\ stub' = NoStub
    /\ statistics' = NoStatistics
    /\ UNCHANGED <<usages, nUsage>>
    /\ UNCHANGED <<updating, recovering>>

\* A faulty __destroy, which erases the record without setting the promise.
__destroyUnset ==
    /\ ~crashed
    /\ inbox # <<>>
    /\ Head(inbox).type = "__destroy"
    /\ inbox' = Tail(inbox)
    /\ LET m == Head(inbox) IN
       IF ~contains(promises, m.id) THEN
           /\ crashed' = TRUE
           /\ UNCHANGED <<terminated, destroying, promises, statuses, hist>>
       ELSE
           /\ terminated' = put(terminated, m.id, promises[m.id])
           /\ destroying' = destroying \ {m.id}
           /\ promises' = erase(promises, m.id)
           /\ statuses' = erase(statuses, m.id)
           /\ hist' = [hist EXCEPT ![m.id].phase = "terminated"]
           /\ UNCHANGED crashed
    /\ UNCHANGED <<resources, futures, launches, launched, kills, nLaunch,
                   nDestroy>>
    /\ stub' = NoStub
    /\ statistics' = NoStatistics
    /\ UNCHANGED <<usages, nUsage>>
    /\ UNCHANGED <<updating, recovering>>

\* __destroy(containerId, killed, status): the exit status is known.
__destroy ==
    /\ ~crashed
    /\ inbox # <<>>
    /\ Head(inbox).type = "__destroy"
    /\ inbox' = Tail(inbox)
    /\ LET m == Head(inbox) IN
       IF ~contains(promises, m.id) THEN
           /\ crashed' = TRUE
           /\ UNCHANGED <<terminated, destroying, promises, statuses, hist>>
       ELSE
           /\ terminated' = put(terminated, m.id,
                  PromiseSet(promises[m.id], Termination(m.killed, m.status)))
           /\ destroying' = destroying \ {m.id}
           /\ promises' = erase(promises, m.id)
           /\ statuses' = erase(statuses, m.id)
           /\ hist' = [hist EXCEPT ![m.id].phase = "terminated"]
           /\ UNCHANGED crashed
    /\ UNCHANGED <<resources, futures, launches, launched, kills, nLaunch,
                   nDestroy>>
    /\ stub' = NoStub
    /\ statistics' = NoStatistics
    /\ UNCHANGED <<usages, nUsage>>
    /\ UNCHANGED <<updating, recovering>>

\* containers()
containers == DOMAIN promises

\* wait(containerId): the future the caller gets.
wait(containerId) ==
    IF ~contains(promises, containerId)
    THEN Failure(<<"Unknown container: ", containerId>>)
    ELSE promises[containerId]

\* The reaper completes future f with the exit status (None when the pid
\* was no child of the slave): the callbacks are dispatched in order.
fire(f, status) ==
    /\ ~crashed
    /\ f \in DOMAIN futures
    /\ futures' = erase(futures, f)
    /\ statuses' = [id \in DOMAIN statuses |->
           IF statuses[id] = PendingFuture(f) THEN ReadyFuture(status)
                                              ELSE statuses[id]]
    /\ inbox' = inbox \o
           [i \in 1..Len(futures[f].callbacks) |->
               [futures[f].callbacks[i] EXCEPT !.status = status]]
    /\ UNCHANGED <<promises, resources, destroying, terminated, launches,
                   launched, kills, crashed, nLaunch, nDestroy, hist>>
    /\ stub' = NoStub
    /\ statistics' = NoStatistics
    /\ UNCHANGED <<usages, nUsage>>
    /\ UNCHANGED <<updating, recovering>>

\* ----------------------------------------------------------------- update
\* Option<T>::get
value(option) == CHOOSE v \in option : TRUE

\* std::max
max(a, b) == IF a > b THEN a ELSE b

\* A faulty update, which does not store the resources.
updateUnstored(containerId, r) ==
    /\ ~crashed
    /\ nUpdate < MaxUpdates
    /\ nUpdate' = nUpdate + 1
    /\ IF ~contains(promises, containerId) THEN
           UNCHANGED <<resources, updates, hist>>
       ELSE
           /\ UNCHANGED resources
           /\ hist' = [hist EXCEPT ![containerId].updated = Some(r)]
           /\ IF r.cpus = None /\ r.mem = None
              THEN UNCHANGED updates
              ELSE updates' = updates (+)
                       SetToBag({[id |-> containerId, resources |-> r]})
    /\ UNCHANGED <<promises, statuses, destroying, terminated, futures,
                   launches, launched, kills, inbox, crashed, nLaunch,
                   nDestroy>>
    /\ UNCHANGED <<hierarchies, cgroups, recovering>>
    /\ stub' = NoStub
    /\ statistics' = NoStatistics
    /\ UNCHANGED <<usages, nUsage>>

\* update(containerId, resources)
update(containerId, r) ==
    /\ ~crashed
    /\ nUpdate < MaxUpdates
    /\ nUpdate' = nUpdate + 1
    /\ IF ~contains(promises, containerId) THEN
           UNCHANGED <<resources, updates, hist>>
       ELSE
           /\ resources' = put(resources, containerId, r)
           /\ hist' = [hist EXCEPT ![containerId].updated = Some(r)]
           /\ IF r.cpus = None /\ r.mem = None
              THEN UNCHANGED updates
              ELSE updates' = updates (+)
                       SetToBag({[id |-> containerId, resources |-> r]})
    /\ UNCHANGED <<promises, statuses, destroying, terminated, futures,
                   launches, launched, kills, inbox, crashed, nLaunch,
                   nDestroy>>
    /\ UNCHANGED <<hierarchies, cgroups, recovering>>
    /\ stub' = NoStub
    /\ statistics' = NoStatistics
    /\ UNCHANGED <<usages, nUsage>>

\* What the cgroups layer answers to one _update: the first of its steps
\* that fails (none, or: the container has no pid, the lookup of the cpu
\* cgroup, the write of cpu.shares, the lookup of the memory cgroup, the
\* write of memory.soft_limit_in_bytes, the read and the write of
\* memory.limit_in_bytes), and whether the pid is in a cgroup of each
\* hierarchy at all.  Either a step fails and the pid is in both cgroups,
\* or no step fails.
Answers ==
    [fails : {"pid", "cpu cgroup", "shares", "memory cgroup", "soft", "read",
              "limit"},
     cpuCgroup : {"some"}, memoryCgroup : {"some"}]
    \cup [fails : {"nothing"},
          cpuCgroup : {"some", "none"}, memoryCgroup : {"some", "none"}]

\* A faulty update of memory.limit_in_bytes, which writes the new limit
\* whatever the current one is.
memoryLimitAlways(currentLimit, limit) == limit

\* memory.limit_in_bytes after "if (limit > currentLimit.get())": the new
\* limit is written only if it is higher than the one just read.
memoryLimit(currentLimit, limit) ==
    IF limit > currentLimit THEN limit ELSE currentLimit

\* The control files after _update(containerId, resources, container) ran
\* on the files cg, with hierarchies h and the answers e of the cgroups layer.
_updateFiles(cg, r, h, e) ==
    IF h.cpu = "error" \/ h.memory = "error" THEN cg
    ELSE IF e.fails = "pid" THEN cg
    ELSE IF e.fails = "cpu cgroup" THEN cg
    ELSE
        LET cpu == h.cpu = "some" /\ e.cpuCgroup = "some" /\ r.cpus # None
            shares == max((CPU_SHARES_PER_CPU * value(r.cpus)) \div 1000,
                          MIN_CPU_SHARES)
            cg1 == IF cpu THEN [cg EXCEPT !.shares = shares] ELSE cg
        IN
        IF cpu /\ e.fails = "shares" THEN cg
        ELSE IF e.fails = "memory cgroup" THEN cg1
        ELSE IF ~(h.memory = "some" /\ e.memoryCgroup = "some"
                  /\ r.mem # None) THEN cg1
        ELSE
            LET limit == max(value(r.mem), MIN_MEMORY)
                cg2 == [cg1 EXCEPT !.soft = limit]
            IN
            IF e.fails = "soft" THEN cg1
            ELSE IF e.fails = "read" THEN cg2
            ELSE IF e.fails = "limit" THEN cg2
            ELSE [cg2 EXCEPT !.limit = memoryLimit(@, limit)]

\* _update(containerId, resources, container): docker.inspect is done.  The
\* hierarchies are looked up by the first call and kept (static).
_update(u, h, e) ==
    /\ ~crashed
    /\ BagIn(u, updates)
    /\ updates' = updates (-) SetToBag({u})
    /\ hierarchies.cpu # "unset" => h = hierarchies
    /\ hierarchies' = h
    /\ cgroups' = [cgroups EXCEPT ![u.id] = _updateFiles(@, u.resources, h, e)]
    /\ UNCHANGED <<lifecycle, resources, nUpdate, recovering>>
    /\ stub' = NoStub
    /\ statistics' = NoStatistics
    /\ UNCHANGED <<usages, nUsage>>

\* docker.inspect of update() failed: the update future fails.
updateFailed(u) ==
    /\ ~crashed
    /\ BagIn(u, updates)
    /\ updates' = updates (-) SetToBag({u})
    /\ UNCHANGED <<lifecycle, resources, nUpdate, hierarchies, cgroups,
                   recovering>>
    /\ stub' = NoStub
    /\ statistics' = NoStatistics
    /\ UNCHANGED <<usages, nUsage>>

\* What cgroups::hierarchy answers for cpu and for memory: at most one of
\* the two is not mounted, or is in error.
Hierarchies ==
    [cpu : {"some", "none", "error"}, memory : {"some"}]
    \cup [cpu : {"some"}, memory : {"some", "none", "error"}]

\* ------------------------------------------------------------------ usage
\* Bytes::bytes() of a Bytes value of the model, which is in megabytes.
bytes(megabytes) == megabytes * 1048576

\* usage(containerId): fails for an unknown container and for one that is
\* being removed; docker.inspect is issued otherwise.
usage(containerId) ==
    /\ ~crashed
    /\ nUsage < MaxUsages
    /\ nUsage' = nUsage + 1
    /\ IF ~contains(promises, containerId) THEN
           /\ statistics' = Statistics(containerId, "failed",
                  <<"Unknown container: ", containerId>>, None, None)
           /\ UNCHANGED usages
       ELSE IF containerId \in destroying THEN
           /\ statistics' = Statistics(containerId, "failed",
                  <<"Container is being removed: ", containerId>>, None, None)
           /\ UNCHANGED usages
       ELSE
           /\ usages' = usages (+) SetToBag({[id |-> containerId]})
           /\ statistics' = NoStatistics
    /\ stub' = NoStub
    /\ UNCHANGED <<lifecycle, resources, updating, recovering>>

\* _usage(containerId, container): docker.inspect is done; hasPid says
\* whether container.pid is there, measured whether
\* mesos::internal::usage(pid, true, true) succeeded.  resources[containerId]
\* makes an entry with no resources if there is none.
_usage(q, hasPid, measured) ==
    /\ ~crashed
    /\ BagIn(q, usages)
    /\ usages' = usages (-) SetToBag({q})
    /\ IF ~hasPid THEN
           /\ statistics' = Statistics(q.id, "failed",
                  <<"Container is not running">>, None, None)
           /\ UNCHANGED resources
       ELSE IF ~measured THEN
           /\ statistics' = Statistics(q.id, "failed",
                  <<"statistics.error()">>, None, None)
           /\ UNCHANGED resources
       ELSE
           LET resource == IF contains(resources, q.id)
                           THEN resources[q.id]
                           ELSE [cpus |-> None, mem |-> None]
           IN  /\ resources' = put(resources, q.id, resource)
               /\ statistics' = Statistics(q.id, "ready", <<>>,
                      resource.cpus, {bytes(m) : m \in resource.mem})
    /\ stub' = NoStub
    /\ UNCHANGED <<lifecycle, nUsage, updating, recovering>>

\* docker.inspect of usage() failed: the usage future fails.
usageFailed(q) ==
    /\ ~crashed
    /\ BagIn(q, usages)
    /\ usages' = usages (-) SetToBag({q})
    /\ statistics' = Statistics(q.id, "failed", <<"docker.inspect">>,
           None, None)
    /\ stub' = NoStub
    /\ UNCHANGED <<lifecycle, resources, nUsage, updating, recovering>>

\* ---------------------------------------------------------------- recover
\* Parse the ContainerID from a Docker container; None if the container was
\* not launched from Mesos.
parse(container) ==
    IF startsWith(container.name, DOCKER_NAME_PREFIX) THEN
        Some(removePrefix(container.name, DOCKER_NAME_PREFIX))
    ELSE IF startsWith(container.name, <<"/">> \o DOCKER_NAME_PREFIX) THEN
        Some(removePrefix(container.name, <<"/">> \o DOCKER_NAME_PREFIX))
    ELSE None

\* A faulty lookup of the values of a map, which finds none.
valuesForgotten(m) == {}

\* The values of a map.
values(m) == {m[k] : k \in DOMAIN m}

\* A faulty test of the loop of recover(), which takes the executors whose
\* latest run is completed too.
skippedUnlessCompleted(executor) ==
    \/ ~executor.info
    \/ executor.latest = None
    \/ executor.forkedPid = None

\* The executors the loop of recover() passes over with "continue": no info,
\* no latest run, no forkedPid, or the latest run is completed.
skipped(executor) ==
    \/ ~executor.info
    \/ executor.latest = None
    \/ executor.forkedPid = None
    \/ executor.completed

\* A faulty end of the loop of recover() on a duplicate pid, which tests the
\* pid before the record of its container is installed.
duplicateUninstalled(st, st1) == [st EXCEPT !.failed = TRUE]

\* What the loop of recover() returns with on a duplicate pid: the test of
\* pids comes after promises.put and process::reap, so st1, the maps with
\* the record of the container of the duplicate installed.
duplicate(st, st1) == [st1 EXCEPT !.failed = TRUE]

\* The loop of recover() over the executors of the state, from the maps in
\* st: pids is the local hashmap of the pids being reaped, failed says that
\* a duplicate pid ended the loop.
RECURSIVE recoverLoop(_, _)
recoverLoop(executors, st) ==
    IF executors = <<>> THEN st
    ELSE
        LET executor == Head(executors) IN
        IF skipped(executor)
        THEN recoverLoop(Tail(executors), st)
        ELSE
            LET containerId == value(executor.latest)
                pid == value(executor.forkedPid)
                st1 == [st EXCEPT
                    !.promises = put(@, containerId, NewPromise),
                    !.statuses = put(@, containerId, PendingFuture(st.n + 1)),
                    !.futures = put(@, st.n + 1,
                        [pid |-> pid,
                         callbacks |->
                            <<Deferred("reaped", containerId, FALSE, None)>>,
                         removed |-> FALSE]),
                    !.hist = [@ EXCEPT ![containerId] = NewHist(st.n + 1)],
                    !.n = @ + 1]
            IN
            IF pid \in values(st.pids)
            THEN duplicate(st, st1)
            ELSE recoverLoop(Tail(executors),
                             [st1 EXCEPT !.pids = put(@, containerId, pid)])

\* recover(state), called once, before anything else: the records of the
\* executors are installed and docker.ps is issued, or a duplicate pid ends
\* it.
recover(state) ==
    /\ ~crashed
    /\ recovery = "none"
    /\ nLaunch = 0
    /\ LET st == recoverLoop(IF state.isSome THEN state.executors ELSE <<>>,
                     [promises |-> promises, statuses |-> statuses,
                      futures |-> futures, hist |-> hist, n |-> nLaunch,
                      pids |-> <<>>, failed |-> FALSE])
       IN  /\ st.n <= MaxLaunches
           /\ promises' = st.promises
           /\ statuses' = st.statuses
           /\ futures' = st.futures
           /\ hist' = st.hist
           /\ nLaunch' = st.n
           /\ recovery' = IF st.failed THEN "duplicate pid" ELSE "ps"
    /\ UNCHANGED <<destroying, terminated, launches, launched, kills, inbox,
                   crashed, nDestroy, resources, updating, sweeps>>
    /\ stub' = NoStub
    /\ statistics' = NoStatistics
    /\ UNCHANGED <<usages, nUsage>>

\* A faulty end of recover() on a docker.ps that failed: the failure is
\* swallowed and recover() succeeds.
psFailedSwallowed ==
    /\ ~crashed
    /\ recovery = "ps"
    /\ recovery' = "done"
    /\ UNCHANGED <<lifecycle, resources, updating, sweeps>>
    /\ stub' = NoStub
    /\ statistics' = NoStatistics
    /\ UNCHANGED <<usages, nUsage>>

\* docker.ps failed: the failure is the result of recover().
psFailed ==
    /\ ~crashed
    /\ recovery = "ps"
    /\ recovery' = "ps failed"
    /\ UNCHANGED <<lifecycle, resources, updating, sweeps>>
    /\ stub' = NoStub
    /\ statistics' = NoStatistics
    /\ UNCHANGED <<usages, nUsage>>

\* The docker.kill calls of _recover(containers), in order: one for each
\* container that parses to an id that is no key of statuses.
RECURSIVE orphans(_)
orphans(listed) ==
    IF listed = <<>> THEN <<>>
    ELSE
        LET container == Head(listed)
            id == parse(container)
        IN  IF id # None /\ ~contains(statuses, value(id))
            THEN <<container.id>> \o orphans(Tail(listed))
            ELSE orphans(Tail(listed))

\* _recover(containers): docker.ps is done and has listed the containers.
_recover(listed) ==
    /\ ~crashed
    /\ recovery = "ps"
    /\ recovery' = "done"
    /\ sweeps' = sweeps \o orphans(listed)
    /\ UNCHANGED <<lifecycle, resources, updating>>
    /\ stub' = NoStub
    /\ statistics' = NoStatistics
    /\ UNCHANGED <<usages, nUsage>>

\* --------------------------------------------------------- the environment
\* The resources a task is launched with.
TaskResources == {[cpus |-> {2000}, mem |-> {}]}

\* The executors of the state recover() is given: for an id, one whose info
\* or latest run was not recovered, one with no forkedPid, a completed one,
\* and live ones with pid 7 or 8.
ExecutorsOf(id) ==
    {[info |-> FALSE, latest |-> Some(id), forkedPid |-> Some(7), completed |-> FALSE],
     [info |-> TRUE, latest |-> None, forkedPid |-> None, completed |-> FALSE],
     [info |-> TRUE, latest |-> Some(id), forkedPid |-> None, completed |-> FALSE],
     [info |-> TRUE, latest |-> Some(id), forkedPid |-> Some(7), completed |-> TRUE],
     [info |-> TRUE, latest |-> Some(id), forkedPid |-> Some(7), completed |-> FALSE],
     [info |-> TRUE, latest |-> Some(id), forkedPid |-> Some(8), completed |-> FALSE]}

\* Option<SlaveState>: none, or some state with at most one executor for
\* each id, in any order.
SlaveStates ==
    {[isSome |-> FALSE, executors |-> <<>>],
     [isSome |-> TRUE, executors |-> <<>>]}
    \cup {[isSome |-> TRUE, executors |-> <<e>>] :
              e \in UNION {ExecutorsOf(id) : id \in Ids}}
    \cup {[isSome |-> TRUE, executors |-> <<e1, e2>>] :
              e1 \in ExecutorsOf(<<"a">>), e2 \in ExecutorsOf(<<"b">>)}
    \cup {[isSome |-> TRUE, executors |-> <<e2, e1>>] :
              e1 \in ExecutorsOf(<<"a">>), e2 \in ExecutorsOf(<<"b">>)}

\* The containers docker.ps may list: two of Mesos, named with and without
\* the leading slash, and one of somebody else.
Containers ==
    <<[id |-> "rtA", name |-> <<"/">> \o containerName(<<"a">>)],
      [id |-> "rtB", name |-> containerName(<<"b">>)],
      [id |-> "rtC", name |-> <<"u", "s", "e", "r">>]>>

\* Every list docker.ps may return: a part of Containers.
Listings ==
    {SelectSeq(Containers, LAMBDA c : c.id \in S) :
         S \in SUBSET {"rtA", "rtB", "rtC"}}

\* The futures of the reaper that may complete: those that watch a process
\* of an id of CallIds.
Exiting ==
    {f \in DOMAIN futures : futures[f].callbacks[1].id \in CallIds}

\* ------------------------------------------------------------------- spec
\* The calls of launch, and the continuations of the launches in flight.
Launch ==
    \/ \E id \in CallIds, c \in Commands, cp \in BOOLEAN : launch(id, c, cp)
    \/ \E id \in CallIds, c \in Commands, r \in TaskResources,
         cp \in BOOLEAN : launch_task(id, c, r, cp)

Launching ==
    \/ \E l \in DOMAIN launches : runFailed(l)
    \/ \E l \in DOMAIN launches : _launch(l)
    \/ \E l \in DOMAIN launches : inspectFailed(l)
    \/ \E l \in DOMAIN launches, hasPid \in BOOLEAN, ck \in BOOLEAN :
           __launch(l, hasPid, ck)
    \/ \E l \in DOMAIN launches, fk \in BOOLEAN, ck \in BOOLEAN,
         wr \in BOOLEAN : _launch_task(l, fk, ck, wr)

\* The steps of a destroy, and the reaper.
Destroying ==
    \/ destroyDeferred
    \/ reaped
    \/ \E k \in BagToSet(kills), o \in {"ready", "failed", "discarded"} :
           _destroy(k, o)
    \/ __destroy
    \/ \E f \in Exiting,
         s \in {None} \cup {Some(c) : c \in ExitCodes} : fire(f, s)

Updating ==
    \/ \E id \in CallIds, r \in Resources : update(id, r)
    \/ \E u \in BagToSet(updates), e \in Answers,
         h \in IF hierarchies.cpu = "unset" THEN Hierarchies
                                            ELSE {hierarchies} :
           _update(u, h, e)
    \/ \E u \in BagToSet(updates) : updateFailed(u)

Using ==
    \/ \E id \in CallIds : usage(id)
    \/ \E q \in BagToSet(usages), hasPid \in BOOLEAN, ms \in BOOLEAN :
           _usage(q, hasPid, ms)
    \/ \E q \in BagToSet(usages) : usageFailed(q)

Recovering ==
    \/ \E state \in SlaveStates : recover(state)
    \/ psFailed
    \/ \E listed \in Listings : _recover(listed)

\* The process with the calls of launch and destroy.
Next ==
    \/ Launch
    \/ Launching
    \/ \E id \in CallIds : Destroy(id)
    \/ Destroying

Spec == Init /\ [][Next]_vars

\* Scheduling: the process handles every call dispatched to it, every
\* docker.kill completes, and the reaper completes the future of a process
\* whose container docker.kill has removed.
FairSpec ==
    /\ Init
    /\ [][Next]_vars
    /\ WF_vars(destroyDeferred)
    /\ WF_vars(reaped)
    /\ WF_vars(__destroy)
    /\ WF_vars(\E k \in BagToSet(kills),
                   o \in {"ready", "failed", "discarded"} : _destroy(k, o))
    /\ WF_vars(\E f \in Exiting,
                   s \in {None} \cup {Some(c) : c \in ExitCodes} :
                       futures[f].removed /\ fire(f, s))

\* The process from its start to the end of recover(): recover() is the
\* first call, and launch and destroy are called, and go on, while the
\* docker.ps of recover() is in flight.
NextRecover ==
    \/ Recovering
    \/ recovery = "ps" /\ Launch
    \/ recovery = "ps" /\ Launching
    \/ recovery = "ps" /\ \E id \in CallIds : Destroy(id)
    \/ recovery = "ps" /\ Destroying

SpecRecover == Init /\ [][NextRecover]_vars

\* The process with the calls of launch, destroy and update.
NextUpdate ==
    \/ nLaunch < MaxUpdateLaunches /\ Launch
    \/ Launching
    \/ nDestroy < MaxUpdateDestroys /\ \E id \in CallIds : Destroy(id)
    \/ Destroying
    \/ Updating

SpecUpdate == Init /\ [][NextUpdate]_vars

\* The process with the calls of launch, destroy, update and usage.  Both
\* hierarchies are mounted, and the cgroups layer does every write of an
\* _update or fails at one of them.
NextUsage ==
    \/ nLaunch < MaxUpdateLaunches /\ Launch
    \/ Launching
    \/ nDestroy < MaxUpdateDestroys /\ \E id \in CallIds : Destroy(id)
    \/ Destroying
    \/ \E id \in CallIds, r \in Resources : update(id, r)
    \/ \E u \in BagToSet(updates),
         e \in {a \in Answers : a.fails \in {"nothing", "shares", "soft"}
                                 /\ a.cpuCgroup = "some"
                                 /\ a.memoryCgroup = "some"} :
           _update(u, [cpu |-> "some", memory |-> "some"], e)
    \/ \E u \in BagToSet(updates) : updateFailed(u)
    \/ Using

SpecUsage == Init /\ [][NextUsage]_vars

\* ----------------------------------------------------------------- claims
\* The docker.kill calls of destroy() in flight for id.
KillsFor(id) ==
    CopiesIn([id |-> id, killed |-> TRUE], kills)
        + CopiesIn([id |-> id, killed |-> FALSE], kills)

\* The __destroy calls for id that are dispatched to the process or attached
\* to a future of the reaper.
Finishers(id) ==
    Cardinality({i \in 1..Len(inbox) :
        inbox[i].type = "__destroy" /\ inbox[i].id = id})
    + Cardinality({p \in UNION {{<<f, i>> : i \in 1..Len(futures[f].callbacks)} :
                                   f \in DOMAIN futures} :
        /\ futures[p[1]].callbacks[p[2]].type = "__destroy"
        /\ futures[p[1]].callbacks[p[2]].id = id})

\* The future of wait(id), as its holders see it, is resolved: the promise
\* of the record is set or failed, whether the record is still there or has
\* been erased.
Resolved(id) ==
    IF contains(promises, id) THEN promises[id].state # "pending"
    ELSE contains(terminated, id) /\ terminated[id].state # "pending"

\* The messages _destroy fails a promise with.
KillFailures ==
    {<<"Failed to destroy container: ", "failure">>,
     <<"Failed to destroy container: ", "discarded future">>}

\* C1: a termination promise is resolved at most once.  A promise that is
\* set or failed never changes again: while its record stays it is the same
\* in the next state, when the record is erased its holders keep it as it
\* was, and what they hold never changes afterwards.
C1_ResolvedAtMostOnce ==
    [][\A id \in Ids :
        /\ (contains(promises, id) /\ promises[id].state # "pending") =>
               IF contains(promises', id)
               THEN promises'[id] = promises[id]
               ELSE contains(terminated', id) /\ terminated'[id] = promises[id]
        /\ (contains(terminated, id) /\ contains(terminated', id)) =>
               terminated'[id] = terminated[id]]_vars

\* C1, its case: a docker.kill failed, which failed the promise, and a later
\* destroy went through to __destroy, which set the failed promise: the
\* holders of the future still see the failure.
C1_Witness ==
    \E id \in Ids :
        /\ contains(terminated, id)
        /\ terminated[id].state = "failed"
        /\ hist[id].phase = "terminated"

\* C2: once a destroy of id has latched (id is in destroying), the future
\* of wait(id) is eventually resolved, with a Termination or a failure.
C2_DestroyResolves ==
    \A id \in CallIds : (id \in destroying) ~> Resolved(id)

\* C2, its case: the caller destroyed a container whose launch was still in
\* flight, and the promise was set, with no status, while it still is.
C2_Witness ==
    \E id \in CallIds :
        /\ hist[id].origin = "caller"
        /\ hist[id].phase = "terminated"
        /\ terminated[id] = [state |-> "ready",
                             value |-> Termination(TRUE, None)]
        /\ \E l \in DOMAIN launches : launches[l].id = id

\* C3 as stated: whenever a destroy of a record has completed, by the
\* failure of its docker.kill or by __destroy, one Termination has been
\* published on the promise of the record.
C3_ExactlyOneTermination ==
    \A id \in Ids :
        (hist[id].calls >= 1
            /\ hist[id].phase \in {"killfailed", "terminated"}) =>
                IF contains(promises, id)
                THEN promises[id].state = "ready"
                ELSE contains(terminated, id) /\ terminated[id].state = "ready"

\* C3, amended: however many destroy calls a record gets, at most one
\* teardown of it is under way (one docker.kill in flight or one __destroy
\* pending) and no teardown step finds the promise gone; a record that has
\* been torn down was destroyed at least once and its promise is resolved,
\* with a Termination if no docker.kill of the record failed; a destroy
\* whose docker.kill failed has failed the promise and published nothing.
C3_AtMostOneTermination ==
    /\ ~crashed
    /\ \A id \in Ids :
        /\ KillsFor(id) + Finishers(id) <= 1
        /\ hist[id].phase = "terminated" =>
               /\ hist[id].calls >= 1
               /\ id \notin containers
               /\ Resolved(id)
               /\ ~hist[id].failed =>
                      /\ terminated[id].state = "ready"
                      /\ terminated[id].value.message \in
                             {Termination(b, None).message : b \in BOOLEAN}
        /\ hist[id].phase = "killfailed" =>
               /\ hist[id].failed
               /\ id \in containers
               /\ promises[id].state = "failed"

\* C3, its case: a record that two or more destroy calls found was torn
\* down, and its promise holds a Termination.
C3_Witness ==
    \E id \in Ids :
        /\ hist[id].phase = "terminated"
        /\ hist[id].calls >= 2
        /\ terminated[id].state = "ready"

\* C4: a launch continuation installs no exit status for an id whose record
\* is gone: every id with an entry in statuses has a termination promise.
C4_StatusOnlyWithPromise ==
    \A id \in DOMAIN statuses : contains(promises, id)

\* C5: while id is in destroying, update(id, r) changes nothing for it: the
\* stored resources stay as they are and no docker.inspect is issued.
C5_NoUpdateWhileDestroying ==
    [][\A id \in CallIds, r \in Resources :
        (id \in destroying /\ update(id, r)) =>
            (resources' = resources /\ updates' = updates)]_vars

\* C6: the killed flag of a published Termination is the flag of the
\* destroy that latched, which is true exactly if that destroy was the
\* caller's (the public destroy) and false if it came from the reaper
\* callback or from a failed launch; the message goes with the flag.
C6_KilledFlag ==
    \A id \in Ids :
        (contains(terminated, id) /\ terminated[id].state = "ready") =>
            /\ terminated[id].value.killed = hist[id].killed
            /\ terminated[id].value.killed <=> hist[id].origin = "caller"
            /\ terminated[id].value.message =
                   IF hist[id].origin = "caller"
                   THEN <<"Docker task killed">>
                   ELSE <<"Docker process terminated">>

\* C6, its case: the reaper callback latched the destroy, the caller's
\* destroy came while it was latched, and the Termination says not killed.
C6_Witness ==
    \E id \in Ids :
        /\ contains(terminated, id)
        /\ terminated[id].state = "ready"
        /\ hist[id].origin = "reaper"
        /\ hist[id].calls >= 2
        /\ nDestroy >= 1
        /\ ~terminated[id].value.killed

\* C7 as stated, its last part: once the destroy that a failed launch
\* triggered has completed, by the failure of its docker.kill or by
\* __destroy, the id has no record.
C7_NoRecordAfterDestroy ==
    \A id \in Ids :
        (hist[id].origin = "launch"
            /\ hist[id].phase \in {"killfailed", "terminated"}) =>
                id \notin containers

\* C7, amended: a launch in flight ends either by registering with the
\* reaper (the launch future is true) or by failing, and then destroy(id,
\* false) is dispatched and the launch future fails; when the destroy so
\* triggered has latched and completed, the id has no record if docker.kill
\* succeeded, and keeps its record, the promise failed, if docker.kill failed.
C7_FailedLaunchDestroys ==
    /\ [][\A l \in DOMAIN launches :
            l \notin DOMAIN launches' =>
                LET id == launches[l].id IN
                IF contains(futures', l)
                THEN /\ launched' = Launched(id, "true")
                     /\ inbox' = inbox
                ELSE /\ launched' = Launched(id, "failed")
                     /\ inbox' = Append(inbox,
                            Deferred("destroy", id, FALSE, None))]_vars
    /\ [](\A id \in Ids :
            hist[id].origin = "launch" =>
                /\ hist[id].phase = "terminated" => id \notin containers
                /\ hist[id].phase = "killfailed" =>
                       /\ id \in containers
                       /\ wait(id).state = "failed"
                       /\ wait(id).value.message \in KillFailures)

\* C7, its case: a launch failed, the destroy it triggered latched and went
\* through, and the id has no record.
C7_Witness ==
    \E id \in Ids :
        /\ launched = Launched(id, "failed")
        /\ hist[id].origin = "launch"
        /\ hist[id].phase = "terminated"
        /\ id \notin containers

\* C8: when the docker.kill of a destroy has not succeeded, and until
\* another destroy latches, the promise is failed with "Failed to destroy
\* container: ...", the id is not in destroying, its record is kept (it is
\* in containers() and wait(id) is the failed future) and no docker.kill of
\* destroy is in flight for it.
C8_KillFailure ==
    \A id \in Ids :
        hist[id].phase = "killfailed" =>
            /\ id \in containers
            /\ promises[id].state = "failed"
            /\ promises[id].value.message \in KillFailures
            /\ wait(id) = promises[id]
            /\ id \notin destroying
            /\ KillsFor(id) + Finishers(id) = 0

\* C8, its case: a docker.kill failed for a container the reaper still
\* watches.
C8_Witness ==
    \E id \in Ids :
        /\ hist[id].phase = "killfailed"
        /\ contains(statuses, id)
        /\ statuses[id].state = "pending"

\* C9: after a Termination was published for id, and until id is launched
\* again, the id is not in containers(), not in destroying, has no entry in
\* statuses, and wait(id) fails with "Unknown container".
C9_RecordErased ==
    \A id \in Ids :
        (contains(terminated, id) /\ terminated[id].state = "ready") =>
            /\ id \notin containers
            /\ id \notin destroying
            /\ ~contains(statuses, id)
            /\ wait(id) = Failure(<<"Unknown container: ", id>>)

\* C10: when _recover runs, docker.kill is issued for every listed
\* container whose name parses to an id that has no record.
C10_OrphansKilled ==
    [][\A listed \in Listings :
        _recover(listed) =>
            \A i \in 1..Len(listed) :
                (parse(listed[i]) # None
                    /\ value(parse(listed[i])) \notin containers) =>
                        \E j \in 1..Len(sweeps') : sweeps'[j] = listed[i].id]_vars

\* C11: when _recover runs, it issues docker.kill for no listed container
\* whose name parses to an id that has a record (the id is in containers()
\* at that time, a launch that was processed while docker.ps was in flight
\* included), and for no container whose name lacks the prefix.
C11_SweepSparesTracked ==
    [][\A listed \in Listings :
        _recover(listed) =>
            \A i \in 1..Len(listed) :
                (\E j \in 1..Len(sweeps') : sweeps'[j] = listed[i].id) =>
                    /\ parse(listed[i]) # None
                    /\ value(parse(listed[i])) \notin containers]_vars

\* The executors of a state that qualify for recovery: info and latest run
\* recovered, the latest run has a forkedPid and is not completed.
Qualifying(state) ==
    IF ~state.isSome THEN {}
    ELSE {e \in {state.executors[i] : i \in 1..Len(state.executors)} :
             /\ e.info
             /\ e.latest # None
             /\ e.forkedPid # None
             /\ ~e.completed}

\* C12: a recover() that succeeds (no duplicate pid ends it, docker.ps is
\* issued) leaves in containers() exactly the ids of the latest runs of the
\* executors that qualify; each has a pending termination promise and a
\* pending future of the reaper on its forkedPid, whose only callback is
\* reaped(id), which calls destroy(id, false); and the step of _recover,
\* which ends the recovery (docker.ps in flight before, done after),
\* installs and erases no record.
C12_RecoveredRecords ==
    [][/\ (recovery = "none" /\ recovery' = "ps") =>
          \A state \in SlaveStates :
            recover(state) =>
                /\ containers' = {value(e.latest) : e \in Qualifying(state)}
                /\ \A e \in Qualifying(state) :
                       LET id == value(e.latest) IN
                       /\ promises'[id] = NewPromise
                       /\ contains(statuses', id)
                       /\ statuses'[id].state = "pending"
                       /\ contains(futures', statuses'[id].f)
                       /\ futures'[statuses'[id].f].pid = value(e.forkedPid)
                       /\ futures'[statuses'[id].f].callbacks =
                              <<Deferred("reaped", id, FALSE, None)>>
       /\ (recovery = "ps" /\ recovery' = "done") =>
              UNCHANGED <<promises, statuses, futures>>]_vars

\* C12, its case: recover() was given two executors that qualify, with pids
\* 7 and 8, and has ended: both ids are tracked and the reaper watches both.
C12_Witness ==
    /\ recovery = "done"
    /\ containers = Ids
    /\ \A id \in Ids :
           /\ contains(statuses, id)
           /\ statuses[id].state = "pending"
           /\ contains(futures, statuses[id].f)
           /\ futures[statuses[id].f].pid \in {7, 8}

\* C13: when two executors of the state that qualify for recovery have the
\* same forkedPid, recover() ends with the duplicate-pid failure, and issues
\* no docker.ps.
C13_DuplicatePid ==
    [][recovery = "none" =>
       \A state \in SlaveStates :
        (/\ recover(state)
         /\ \E i, j \in 1..Len(state.executors) :
                /\ i # j
                /\ {state.executors[i], state.executors[j]}
                       \subseteq Qualifying(state)
                /\ state.executors[i].forkedPid = state.executors[j].forkedPid)
            => recovery' = "duplicate pid"]_vars

\* C13, its case: recover() was given two executors that qualify and have
\* the same pid, and has failed.
C13_Witness ==
    /\ recovery = "duplicate pid"
    /\ \E id1, id2 \in containers :
           /\ id1 # id2
           /\ futures[statuses[id1].f].pid = futures[statuses[id2].f].pid

\* C14: in a _launch of a task with checkpoint = true, the byte that
\* releases the forked executor is written only after its pid has been
\* checkpointed; when the checkpoint fails, the stdin of the executor is
\* closed and the byte is never written; and the pid is given to the reaper
\* (statuses and the callback are installed) only after the byte was
\* written.
C14_StartGate ==
    [][\A l \in DOMAIN launches, fk \in BOOLEAN, ck \in BOOLEAN,
          wr \in BOOLEAN :
        (_launch_task(l, fk, ck, wr) /\ launches[l].checkpoint) =>
            LET steps == stub'.steps
                at(step) == {i \in 1..Len(steps) : steps[i] = step}
            IN  /\ stub'.checkpoint
                /\ \A i \in at("byte") : \E j \in at("checkpoint") : j < i
                /\ (fk /\ ~ck) => (at("close") # {} /\ at("byte") = {})
                /\ \A i \in at("reap") : \E j \in at("byte") : j < i
                /\ contains(futures', l) <=> at("reap") # {}
                /\ contains(futures', l) =>
                       statuses'[launches[l].id] = PendingFuture(l)]_vars

\* C14, its case: a task was launched with checkpoint = true, its executor
\* was forked, its pid checkpointed, the byte written, and the reaper
\* watches it.
C14_Witness ==
    /\ stub = [checkpoint |-> TRUE,
               steps |-> <<"fork", "checkpoint", "byte", "reap">>]
    /\ \E id \in CallIds :
           /\ launched = Launched(id, "true")
           /\ contains(statuses, id)
           /\ statuses[id].state = "pending"

\* C15: no step lowers memory.limit_in_bytes of a container.  An _update
\* changes it only to max(r.mem, MIN_MEMORY), and only if that is higher
\* than the limit it read; an _update that gets as far as the memory
\* control files and whose write succeeds leaves
\* memory.soft_limit_in_bytes at max(r.mem, MIN_MEMORY), higher or lower
\* than before.
C15_HardLimitNeverLowered ==
    [][/\ \A id \in Ids : cgroups'[id].limit >= cgroups[id].limit
       /\ (updates' # updates /\ hierarchies' \in Hierarchies) =>
          \A u \in BagToSet(updates), e \in Answers :
            _update(u, hierarchies', e) =>
                LET r == u.resources
                    h == hierarchies'
                    old == cgroups[u.id]
                    new == cgroups'[u.id]
                IN  /\ new.limit # old.limit =>
                           /\ r.mem # None
                           /\ new.limit = max(value(r.mem), MIN_MEMORY)
                           /\ new.limit > old.limit
                    /\ new.soft # old.soft =>
                           /\ r.mem # None
                           /\ new.soft = max(value(r.mem), MIN_MEMORY)
                    /\ (/\ r.mem # None
                        /\ h.cpu # "error"
                        /\ h.memory = "some"
                        /\ e.memoryCgroup = "some"
                        /\ e.fails \in {"nothing", "read", "limit"}) =>
                           new.soft = max(value(r.mem), MIN_MEMORY)]_vars

\* C15, its case: an update with less memory than the limit in force went
\* through: the soft limit has gone down, to MIN_MEMORY, and the hard limit
\* is what it was.
C15_Witness ==
    \E id \in CallIds :
        /\ nUpdate >= 1
        /\ cgroups[id].soft = MIN_MEMORY
        /\ cgroups[id].soft < InitialCgroup.soft
        /\ cgroups[id].limit = InitialCgroup.limit

\* C16: a usage(id) of a container that is tracked and not being destroyed
\* issues docker.inspect, and the ResourceStatistics that _usage then
\* returns carry, as cpus_limit and mem_limit_bytes, the cpus and the mem
\* (in bytes) of the resources of the latest update of the record of id; a
\* limit is absent if that update had none.  What the cgroups layer did for
\* the update plays no part.
C16_UsageReportsUpdate ==
    [][/\ \A id \in CallIds :
            (usage(id) /\ id \in containers /\ id \notin destroying) =>
                usages' = usages (+) SetToBag({[id |-> id]})
       /\ \A q \in BagToSet(usages), hasPid \in BOOLEAN, ms \in BOOLEAN :
            (/\ _usage(q, hasPid, ms)
             /\ statistics'.state = "ready"
             /\ hist[q.id].updated # None) =>
                LET r == value(hist[q.id].updated) IN
                /\ statistics'.cpus_limit = r.cpus
                /\ statistics'.mem_limit_bytes = {1048576 * m : m \in r.mem}]_vars

\* C16, its case: a container was updated with cpus and no less memory than
\* it has, the write of memory.soft_limit_in_bytes failed, and a usage
\* that was issued afterwards has returned statistics with the limits of
\* the update.
C16_Witness ==
    \E id \in CallIds :
        /\ statistics.id = id
        /\ statistics.state = "ready"
        /\ hist[id].updated = Some([cpus |-> {5}, mem |-> {128}])
        /\ statistics.cpus_limit = {5}
        /\ statistics.mem_limit_bytes = {134217728}
        /\ updates = EmptyBag
        /\ cgroups[id].soft = InitialCgroup.soft

\* C17: a launch, of either overload, for an id that has a record (made by
\* a launch or by recover(); live, being destroyed, or kept after a
\* docker.kill that failed) fails with "already started", changes none of
\* the maps of the process and issues no docker.run.
C17_AlreadyStarted ==
    [][\A id \in CallIds, c \in Commands, cp \in BOOLEAN :
        (/\ id \in containers
         /\ \/ launch(id, c, cp)
            \/ \E r \in TaskResources : launch_task(id, c, r, cp)) =>
            /\ launched' = Launched(id, "already started")
            /\ UNCHANGED <<promises, statuses, resources, destroying,
                           terminated, futures, launches, kills, inbox,
                           hist>>]_vars

\* C17, its case: a launch was turned down for an id whose record was kept
\* after its docker.kill failed.
C17_Witness ==
    \E id \in CallIds :
        /\ launched = Launched(id, "already started")
        /\ id \in containers
        /\ hist[id].phase = "killfailed"

\* C18: a launch, of either overload, for an id that has no record, with a
\* command that has no container block or whose image does not start with
\* "docker:///", resolves false and has no effect: no promise, resources or
\* status is installed, containers() is what it was and no docker.run is
\* issued.
C18_NotDocker ==
    [][\A id \in CallIds, c \in Commands, cp \in BOOLEAN :
        (/\ id \notin containers
         /\ ~c.has_container \/ ~startsWith(c.image, DOCKER_IMAGE_PREFIX)
         /\ \/ launch(id, c, cp)
            \/ \E r \in TaskResources : launch_task(id, c, r, cp)) =>
            /\ launched' = Launched(id, "false")
            /\ containers' = containers
            /\ UNCHANGED <<promises, statuses, resources, destroying,
                           terminated, futures, launches, kills, inbox,
                           hist>>]_vars

\* C18, its case: a launch with an image that is no Docker image resolved
\* false for an id that had been launched and torn down before, and the id
\* has no record, no status and no docker.run in flight.
C18_Witness ==
    \E id \in CallIds :
        /\ launched = Launched(id, "false")
        /\ nLaunch >= 2
        /\ hist[id].phase = "terminated"
        /\ id \notin containers
        /\ ~contains(statuses, id)
        /\ launches = <<>>

\* C19: when reaped(id) runs for an id that has a record and is not in
\* destroying, destroy(id, false) latches and issues docker.kill; when it
\* runs for an id in destroying, no second docker.kill is issued; and when
\* the destroy that reaped(id) latched, after the reaper reported the exit
\* code s, has gone through (no docker.kill of the record failed), the
\* promise holds Termination(killed = false, status = s, "Docker process
\* terminated").
C19_ReapedTermination ==
    /\ [][(reaped /\ Head(inbox).id \in containers) =>
            LET id == Head(inbox).id IN
            IF id \in destroying
            THEN UNCHANGED <<destroying, kills>>
            ELSE /\ destroying' = destroying \cup {id}
                 /\ kills' = kills (+)
                        SetToBag({[id |-> id, killed |-> FALSE]})]_vars
    /\ [](\A id \in Ids :
            (/\ hist[id].origin = "reaper"
             /\ hist[id].exit # None
             /\ hist[id].phase = "terminated"
             /\ ~hist[id].failed) =>
                terminated[id] =
                    [state |-> "ready",
                     value |-> Termination(FALSE, hist[id].exit)])

\* C20: every id whose termination promise exists and is pending is in
\* containers(): a step that erases the record of an id leaves its promise
\* set or failed, and no promise whose record is erased is pending.
C20_UnresolvedAreTracked ==
    /\ [][\A id \in Ids :
            (id \in containers /\ id \notin containers') =>
                /\ contains(terminated', id)
                /\ terminated'[id].state # "pending"]_vars
    /\ [](\A id \in Ids :
            (contains(terminated, id) /\ id \notin containers) =>
                terminated[id].state # "pending")

\* C20, its case: the record of one id was erased, its promise set, while
\* the promise of another id is pending and that id is in containers().
C20_Witness ==
    \E id1, id2 \in Ids :
        /\ id1 \notin containers
        /\ contains(terminated, id1)
        /\ terminated[id1].state = "ready"
        /\ id2 \in containers
        /\ promises[id2].state = "pending"

\* C21: a Termination is published for id (the step that erases its record)
\* only when id is in destroying, the docker.kill that the latching destroy
\* issued has completed and succeeded (none is in flight, and _destroy has
\* gone on to the status), and the exit status that _destroy attached
\* __destroy to is resolved: it was ready, the None put in place included,
\* or the reaper has completed its future since.  The step of _destroy that
\* goes on to the status takes a docker.kill of a latched destroy out of
\* flight.  So a container whose process exited by itself gets its
\* docker.kill too before its Termination is published.
C21_TeardownOrder ==
    [][\A id \in Ids :
        /\ (id \in containers /\ id \notin containers') =>
               /\ id \in destroying
               /\ hist[id].calls >= 1
               /\ hist[id].phase = "awaitingreap"
               /\ KillsFor(id) = 0
               /\ hist[id].awaited \notin DOMAIN futures
               /\ terminated'[id].state = "ready" =>
                      terminated'[id].value.killed = hist[id].killed
        /\ (hist[id].phase # "awaitingreap"
                /\ hist'[id].phase = "awaitingreap") =>
               /\ id \in destroying
               /\ hist[id].phase = "destroying"
               /\ KillsFor(id) = 1
               /\ kills' = kills (-)
                      SetToBag({[id |-> id, killed |-> hist[id].killed]})]_vars

\* C21, its case: the process of a container exited by itself, the reaper
\* callback latched the destroy, docker.kill was issued and succeeded, and
\* the Termination, with the exit code, was published.
C21_Witness ==
    \E id \in Ids :
        /\ hist[id].origin = "reaper"
        /\ hist[id].exit # None
        /\ hist[id].phase = "terminated"
        /\ terminated[id] =
               [state |-> "ready", value |-> Termination(FALSE, hist[id].exit)]

\* C22: the step that publishes the Termination of id (the final step of
\* destroy) erases the whole record of id: right after it none of promises,
\* statuses, resources and destroying holds an entry for id.
C22_WholeRecordErased ==
    [][\A id \in Ids :
        (id \in containers /\ id \notin containers') =>
            /\ ~contains(promises', id)
            /\ ~contains(statuses', id)
            /\ ~contains(resources', id)
            /\ id \notin destroying']_vars

\* C23 as stated: when _destroy runs after a docker.kill that succeeded,
\* for an id that has no exit status (its launch failed before a pid was
\* known), it puts a ready None status in place and dispatches __destroy at
\* once, attaching nothing to the reaper; and the step of __destroy then
\* leaves wait(id) resolved with the Termination of the flag of the destroy
\* and no status, and erases the record.
C23_AbsentStatusTermination ==
    [][/\ \A k \in BagToSet(kills) :
            (_destroy(k, "ready") /\ ~contains(statuses, k.id)) =>
                /\ statuses'[k.id] = ReadyFuture(None)
                /\ inbox' = Append(inbox,
                       Deferred("__destroy", k.id, k.killed, None))
                /\ \A f \in DOMAIN futures :
                       futures'[f].callbacks = futures[f].callbacks
       /\ \A id \in Ids :
            (hist[id].absent /\ id \in containers /\ id \notin containers') =>
                /\ terminated'[id] =
                       [state |-> "ready",
                        value |-> Termination(hist[id].killed, None)]
                /\ ~contains(statuses', id)
                /\ id \notin destroying']_vars

\* C23, amended: as C23, but wait(id) resolves with that Termination only
\* if no docker.kill of the record had failed before; if one had, the
\* promise stays failed with the failure of that docker.kill, and the
\* record is erased all the same.  While the teardown waits for its last
\* step, __destroy is dispatched to the process and attached to no future
\* of the reaper.
C23_AbsentStatusSubstituted ==
    /\ [][/\ \A k \in BagToSet(kills) :
               (_destroy(k, "ready") /\ ~contains(statuses, k.id)) =>
                   /\ statuses'[k.id] = ReadyFuture(None)
                   /\ inbox' = Append(inbox,
                          Deferred("__destroy", k.id, k.killed, None))
                   /\ \A f \in DOMAIN futures :
                          futures'[f].callbacks = futures[f].callbacks
          /\ \A id \in Ids :
               (hist[id].absent /\ id \in containers
                    /\ id \notin containers') =>
                   /\ terminated'[id] =
                          IF hist[id].failed THEN promises[id]
                          ELSE [state |-> "ready",
                                value |-> Termination(hist[id].killed, None)]
                   /\ hist[id].failed =>
                          /\ promises[id].state = "failed"
                          /\ promises[id].value.message \in KillFailures
                   /\ ~contains(statuses', id)
                   /\ id \notin destroying']_vars
    /\ [](\A id \in Ids :
            (hist[id].absent /\ hist[id].phase = "awaitingreap") =>
                /\ hist[id].awaited = 0
                /\ \E i \in 1..Len(inbox) :
                       inbox[i] = Deferred("__destroy", id, hist[id].killed,
                                           None))

\* C23, its case: a launch failed at docker.run, the destroy it triggered
\* latched, docker.kill succeeded, no status was there, and the Termination
\* with no status and killed = false was published, the reaper watching
\* nothing.
C23_Witness ==
    \E id \in Ids :
        /\ hist[id].absent
        /\ hist[id].origin = "launch"
        /\ hist[id].phase = "terminated"
        /\ ~hist[id].failed
        /\ terminated[id] =
               [state |-> "ready", value |-> Termination(FALSE, None)]
        /\ id \notin containers
        /\ futures = <<>>

\* C24: a destroy(id), from the caller, from a failed launch or from the
\* reaper callback, that comes while id is in destroying changes none of
\* the maps of the process, no future and no call in flight, and issues no
\* docker.kill; and at most one docker.kill of destroy is in flight for an
\* id at any time.
C24_LatchedDestroyNoOp ==
    /\ [][\A id \in Ids :
            (/\ id \in destroying
             /\ \/ Destroy(id)
                \/ destroyDeferred /\ Head(inbox).id = id
                \/ reaped /\ Head(inbox).id = id) =>
                /\ kills' = kills
                /\ UNCHANGED <<promises, statuses, resources, destroying,
                               terminated, futures, launches, launched,
                               crashed, updating, recovering>>
                /\ inbox' = IF Destroy(id) THEN inbox ELSE Tail(inbox)
                /\ hist' = [hist EXCEPT ![id].calls = @ + 1]]_vars
    /\ [](\A id \in Ids : KillsFor(id) <= 1)

\* C24, its case: a second destroy call found the record of an id in
\* destroying, while the docker.kill of the first was in flight, and that
\* docker.kill is still the only one.
C24_Witness ==
    \E id \in Ids :
        /\ id \in destroying
        /\ hist[id].calls >= 2
        /\ ~hist[id].failed
        /\ hist[id].phase = "destroying"
        /\ KillsFor(id) = 1

\* C25: when the docker.ps of recover() fails, the future of recover()
\* fails; docker.ps is not issued again (the recovery never goes back to
\* waiting for it, and never ends in another way); and no docker.kill of
\* the sweep is issued, then or later.  The records recover() installed
\* stay as they are.
C25_PsFailure ==
    /\ [][/\ psFailed =>
               /\ recovery' = "ps failed"
               /\ sweeps' = sweeps
               /\ UNCHANGED <<promises, statuses, futures, kills>>
          /\ recovery = "ps failed" =>
               /\ recovery' = "ps failed"
               /\ sweeps' = sweeps]_vars
    /\ [](recovery = "ps failed" => sweeps = <<>>)

\* C25, its case: recover() installed the records of two executors, a
\* destroy was latched while docker.ps was in flight, and docker.ps failed:
\* the records are tracked and nothing was swept.
C25_Witness ==
    /\ recovery = "ps failed"
    /\ sweeps = <<>>
    /\ containers = Ids
    /\ destroying # {}

\* C26: whenever _destroy or __destroy runs for an id, the termination
\* promise of the id exists (no step dereferences a promise that is gone, so
\* the process never aborts on it); in every state destroying is a subset
\* of the ids that have a promise; and __destroy runs at most once for a
\* record: when it runs it is the only __destroy dispatched or attached for
\* the id, the record awaits it, and none is left for a record that does
\* not await one.
C26_PromiseOutlivesTeardown ==
    /\ [][/\ \A k \in BagToSet(kills) :
               (\E o \in {"ready", "failed", "discarded"} : _destroy(k, o)) =>
                   /\ contains(promises, k.id)
                   /\ k.id \in destroying
          /\ __destroy =>
               LET id == Head(inbox).id IN
               /\ contains(promises, id)
               /\ id \in destroying
               /\ hist[id].phase = "awaitingreap"
               /\ Finishers(id) = 1
               /\ ~contains(promises', id)
               /\ hist'[id].phase = "terminated"]_vars
    /\ [](/\ ~crashed
          /\ destroying \subseteq containers
          /\ \A id \in Ids :
                 hist[id].phase # "awaitingreap" => Finishers(id) = 0)

\* C26, its case: a docker.kill of the record that the second launch call
\* made failed and _destroy failed its promise, and a later destroy went
\* through to __destroy, which erased the record.
C26_Witness ==
    \E id \in Ids :
        /\ hist[id].owner >= 2
        /\ hist[id].failed
        /\ hist[id].phase = "terminated"
        /\ id \notin containers
        /\ ~crashed

\* The places, in the executors of a state, of the executors that qualify
\* for recovery and have the forkedPid of one that qualifies and comes
\* before.
Duplicates(state) ==
    {i \in 1..Len(state.executors) :
        /\ state.executors[i] \in Qualifying(state)
        /\ \E j \in 1..Len(state.executors) :
               /\ j < i
               /\ state.executors[j] \in Qualifying(state)
               /\ state.executors[j].forkedPid = state.executors[i].forkedPid}

\* C27: a recover() that finds a duplicate pid fails without issuing
\* docker.ps or any docker.kill of the sweep, and leaves in containers()
\* the ids of the executors that qualify up to the first duplicate, the
\* container of the duplicate included, each with a pending promise and a
\* pending future of the reaper with the reaped callback; and after the
\* failure docker.ps and the sweep never come.
C27_DuplicatePidKeepsRecords ==
    /\ [][/\ recovery = "none" =>
               \A state \in SlaveStates :
                   (recover(state) /\ Duplicates(state) # {}) =>
                       LET d == CHOOSE i \in Duplicates(state) :
                                    \A j \in Duplicates(state) : i <= j
                           installed == {i \in 1..d :
                               state.executors[i] \in Qualifying(state)}
                       IN  /\ recovery' = "duplicate pid"
                           /\ sweeps' = sweeps
                           /\ containers' = {value(state.executors[i].latest) :
                                                 i \in installed}
                           /\ \A i \in installed :
                                  LET e == state.executors[i]
                                      id == value(e.latest)
                                  IN  /\ promises'[id] = NewPromise
                                      /\ contains(statuses', id)
                                      /\ statuses'[id].state = "pending"
                                      /\ contains(futures', statuses'[id].f)
                                      /\ futures'[statuses'[id].f].pid =
                                             value(e.forkedPid)
                                      /\ futures'[statuses'[id].f].callbacks =
                                             <<Deferred("reaped", id, FALSE,
                                                        None)>>
          /\ recovery = "duplicate pid" =>
               /\ recovery' = "duplicate pid"
               /\ sweeps' = sweeps]_vars
    /\ [](recovery = "duplicate pid" => sweeps = <<>>)

\* C27, its case: recover() was given two executors with pid 7, failed at
\* the second, and both ids are tracked, the second with its promise and
\* its future of the reaper.
C27_Witness ==
    /\ recovery = "duplicate pid"
    /\ sweeps = <<>>
    /\ containers = Ids
    /\ \A id \in Ids :
           /\ promises[id] = NewPromise
           /\ statuses[id].state = "pending"
           /\ futures[statuses[id].f].pid = 7
           /\ futures[statuses[id].f].callbacks =
                  <<Deferred("reaped", id, FALSE, None)>>

\* C28: once a docker.kill that failed has failed the promise of a record,
\* no Termination is delivered for the record: the promise is failed, with
\* the failure of that docker.kill, as long as the record is there and when
\* it is erased.  A destroy that comes later, from the caller, from a
\* failed launch or from the reaper callback, finds the record, latches and
\* issues docker.kill again; and the step that then erases the record
\* leaves the promise failed as it was and wait(id) failing with "Unknown
\* container".
C28_FailedPromiseStaysFailed ==
    /\ [][\A id \in Ids :
            /\ (/\ hist[id].phase = "killfailed"
                /\ \/ Destroy(id)
                   \/ destroyDeferred /\ Head(inbox).id = id
                   \/ reaped /\ Head(inbox).id = id) =>
                   /\ id \in containers
                   /\ destroying' = destroying \cup {id}
                   /\ KillsFor(id) = 0
                   /\ kills' = kills (+)
                          SetToBag({[id |-> id, killed |-> hist'[id].killed]})
                   /\ promises' = promises
            /\ (hist[id].failed /\ id \in containers
                    /\ id \notin containers') =>
                   /\ promises[id].state = "failed"
                   /\ terminated'[id] = promises[id]
                   /\ id \notin destroying'
                   /\ ~contains(statuses', id)]_vars
    /\ [](\A id \in Ids :
            hist[id].failed =>
                /\ wait(id).state = "failed"
                /\ IF id \in containers
                   THEN /\ wait(id) = promises[id]
                        /\ promises[id].value.message \in KillFailures
                   ELSE /\ wait(id) = Failure(<<"Unknown container: ", id>>)
                        /\ contains(terminated, id)
                        /\ terminated[id].state = "failed"
                        /\ terminated[id].value.message \in KillFailures)

\* C28, its case: a docker.kill of the record failed, the reaper callback
\* latched a destroy afterwards, its docker.kill succeeded and the record
\* was erased: the promise is failed and wait(id) fails with "Unknown
\* container".
C28_Witness ==
    \E id \in Ids :
        /\ hist[id].failed
        /\ hist[id].origin = "reaper"
        /\ hist[id].phase = "terminated"
        /\ terminated[id].state = "failed"
        /\ wait(id) = Failure(<<"Unknown container: ", id>>)

====
